---- MODULE Spec2Model ----
(***************************************************************************)
(* Model of the co-occurrence / PMI pipeline:                              *)
(*   cooccurrence.py  main: one pass over a tokenized corpus that fills a  *)
(*                    unigram Counter and a co-occurrence Counter and      *)
(*                    writes both as TSV files;                            *)
(*   ppmi.py          _make_key, _read_unigram, _read_cooccur and the      *)
(*                    PMICalculator built from the loaded tables.          *)
(*                                                                         *)
(* Strings are sequences of code points, compared as Python compares str   *)
(* (code point by code point, a proper prefix being smaller).  A dict or   *)
(* Counter is a sequence of <<key, value>> pairs in insertion order.       *)
(* Floats are modelled by the exact rational they approximate: int / int   *)
(* is non-zero exactly when the dividend is.                               *)
(***************************************************************************)
EXTENDS Integers, Sequences, FiniteSets, TLC

VARIABLES
    pc,             \* position of the two programs' control
    ws,             \* args.ws
    corpus,         \* the lines of args.tok_path
    linenum,        \* enumerate(source, 1)
    sentence,       \* line.rstrip().split()
    i,              \* index of the next target position (0-based, as in the code)
    window,         \* the window built for the last target position
    unigram_freqs,  \* Counter of cooccurrence.main
    cooccur_freqs,  \* Counter of cooccurrence.main
    unigram_file,   \* lines of args.unigram_path
    cooccur_file,   \* lines of args.cooccur_path
    row,            \* number of rows the running loader has consumed
    unigram,        \* table of _read_unigram
    cooccur,        \* table of _read_cooccur
    calc,           \* the PMICalculator (its four attributes)
    query           \* the last pmi/ppmi call and its outcome

vars == <<pc, ws, corpus, linenum, sentence, i, window, unigram_freqs,
          cooccur_freqs, unigram_file, cooccur_file, row, unigram, cooccur,
          calc, query>>

aggVars == <<ws, corpus, linenum, sentence, i, window, unigram_freqs, cooccur_freqs>>
fileVars == <<unigram_file, cooccur_file>>

----------------------------------------------------------------------------
(* Bounds of the checked instances. *)

MaxLines == 2
MaxSentenceLen == 2
MaxWs == 2
MaxRows == 2

(* Code points the programs name. *)
TAB == 9
NL == 10
SP == 32
MINUS == 45
PLUS == 43
UNDERSCORE == 95
ZERO == 48

----------------------------------------------------------------------------
(* str *)

Min(a, b) == IF a < b THEN a ELSE b
Max(a, b) == IF a > b THEN a ELSE b

\* s[lo:hi] for 0 <= lo, 0 <= hi (Python slice, clipped at len(s)).
Slice(s, lo, hi) == SubSeq(s, lo + 1, Min(hi, Len(s)))

\* s < t on str.
RECURSIVE StrLess(_, _)
StrLess(s, t) ==
    IF t = <<>> THEN FALSE
    ELSE IF s = <<>> THEN TRUE
    ELSE IF Head(s) # Head(t) THEN Head(s) < Head(t)
    ELSE StrLess(Tail(s), Tail(t))

\* s > t on str.
StrGreater(s, t) == StrLess(t, s)

\* str.isspace() for one character (the ASCII part and NEL, NBSP).
IsSpace(c) == c \in {9, 10, 11, 12, 13, 28, 29, 30, 31, 32, 133, 160}

IsDigit(c) == c >= ZERO /\ c <= ZERO + 9

\* str.rstrip()
RECURSIVE RStrip(_)
RStrip(s) ==
    IF s # <<>> /\ IsSpace(s[Len(s)]) THEN RStrip(SubSeq(s, 1, Len(s) - 1)) ELSE s

\* str.lstrip()
RECURSIVE LStrip(_)
LStrip(s) == IF s # <<>> /\ IsSpace(Head(s)) THEN LStrip(Tail(s)) ELSE s

\* str.split(): the maximal runs of non-whitespace.
RECURSIVE SplitFrom(_, _)
SplitFrom(s, cur) ==
    IF s = <<>> THEN (IF cur = <<>> THEN <<>> ELSE <<cur>>)
    ELSE IF IsSpace(Head(s))
         THEN (IF cur = <<>> THEN <<>> ELSE <<cur>>) \o SplitFrom(Tail(s), <<>>)
         ELSE SplitFrom(Tail(s), Append(cur, Head(s)))

Split(s) == SplitFrom(s, <<>>)

\* Index of the first occurrence of character sep in s, 0 when absent.
RECURSIVE FindFrom(_, _, _)
FindFrom(s, sep, k) ==
    IF k > Len(s) THEN 0 ELSE IF s[k] = sep THEN k ELSE FindFrom(s, sep, k + 1)

\* s.split(sep, 1) for a one-character sep: one or two fields.
SplitOnce(s, sep) ==
    LET k == FindFrom(s, sep, 1)
    IN  IF k = 0 THEN <<s>> ELSE <<SubSeq(s, 1, k - 1), SubSeq(s, k + 1, Len(s))>>

\* " ".join(words)
RECURSIVE Join(_)
Join(words) ==
    IF words = <<>> THEN <<>>
    ELSE IF Len(words) = 1 THEN words[1]
    ELSE words[1] \o <<SP>> \o Join(Tail(words))

\* str(n) / f"{n}" for a non-negative int.
RECURSIVE Digits(_)
Digits(n) == IF n < 10 THEN <<ZERO + n>> ELSE Append(Digits(n \div 10), ZERO + (n % 10))

\* f"{n}" for an int.
FormatInt(n) == IF n < 0 THEN <<MINUS>> \o Digits(0 - n) ELSE Digits(n)

\* The digits of int()'s argument: digits, single underscores only between digits.
IsDigitString(s) ==
    /\ s # <<>>
    /\ IsDigit(s[1]) /\ IsDigit(s[Len(s)])
    /\ \A k \in 1..Len(s) : IsDigit(s[k]) \/ s[k] = UNDERSCORE
    /\ \A k \in 1..(Len(s) - 1) : ~(s[k] = UNDERSCORE /\ s[k + 1] = UNDERSCORE)

RECURSIVE DigitsValue(_, _)
DigitsValue(s, acc) ==
    IF s = <<>> THEN acc
    ELSE IF Head(s) = UNDERSCORE THEN DigitsValue(Tail(s), acc)
    ELSE DigitsValue(Tail(s), 10 * acc + (Head(s) - ZERO))

\* int(s) for a str: surrounding whitespace stripped, an optional sign, digits.
\* ok = FALSE stands for the ValueError.
ParseInt(s) ==
    LET t == RStrip(LStrip(s))
        signed == t # <<>> /\ Head(t) \in {MINUS, PLUS}
        body == IF signed THEN Tail(t) ELSE t
    IN  IF ~IsDigitString(body) THEN [ok |-> FALSE, val |-> 0]
        ELSE [ok |-> TRUE,
              val |-> IF signed /\ Head(t) = MINUS
                      THEN 0 - DigitsValue(body, 0) ELSE DigitsValue(body, 0)]

----------------------------------------------------------------------------
(* dict / collections.Counter: <<key, value>> pairs in insertion order *)

Keys(d) == {d[k][1] : k \in 1..Len(d)}

KeyIndex(d, key) == CHOOSE k \in 1..Len(d) : d[k][1] = key

\* d.get(key, default); Counter's d[key] with default 0.
Get(d, key, default) == IF key \in Keys(d) THEN d[KeyIndex(d, key)][2] ELSE default

\* d[key] = value
Put(d, key, value) ==
    IF key \in Keys(d)
    THEN [d EXCEPT ![KeyIndex(d, key)] = <<key, value>>]
    ELSE Append(d, <<key, value>>)

\* sum(d.values())
RECURSIVE SumValues(_)
SumValues(d) == IF d = <<>> THEN 0 ELSE d[1][2] + SumValues(Tail(d))

\* d1 == d2 on dicts: the same keys with the same values, whatever the order.
DictEq(d1, d2) ==
    /\ Keys(d1) = Keys(d2)
    /\ \A key \in Keys(d1) : Get(d1, key, 0) = Get(d2, key, 0)

----------------------------------------------------------------------------
(* cooccurrence.py *)

\* The tokens of the checked corpora ("ab" and "b") and of the queries ("a" too).
Vocab == {<<97, 98>>, <<98>>}
QueryTokens == Vocab \cup {<<97>>}

\* All sequences over S of length at most n.
RECURSIVE SeqsUpTo(_, _)
SeqsUpTo(S, n) ==
    IF n = 0 THEN {<<>>}
    ELSE LET shorter == SeqsUpTo(S, n - 1)
         IN  shorter \cup {Append(q, x) : q \in {r \in shorter : Len(r) = n - 1}, x \in S}

\* A line of the tokenized input: its tokens joined by spaces, and the newline.
Lines == {Join(words) \o <<NL>> : words \in SeqsUpTo(Vocab, MaxSentenceLen)}
Corpora == SeqsUpTo(Lines, MaxLines)

\* Mutant: counter[key] = 1
IncrementAssigns(counter, key) == Put(counter, key, 1)

\* counter[key] += 1
Increment(counter, key) == Put(counter, key, Get(counter, key, 0) + 1)

\* sentence[max(i - ws, 0):i] + sentence[i + 1:i + ws]
Window(s, k, w) == Slice(s, Max(k - w, 0), k) \o Slice(s, k + 1, k + w)

\* Mutant: the skip of target_token > context_token is missing.
CountContextNoSkip(cf, target_token, context_token) ==
    Increment(cf, <<target_token, context_token>>)

\* The body of "for context_token in window" for one context token.
CountContext(cf, target_token, context_token) ==
    IF StrGreater(target_token, context_token)
    THEN cf
    ELSE Increment(cf, <<target_token, context_token>>)

\* for context_token in window: ...
RECURSIVE CountWindow(_, _, _)
CountWindow(cf, target_token, win) ==
    IF win = <<>> THEN cf
    ELSE CountWindow(CountContext(cf, target_token, Head(win)), target_token, Tail(win))

\* Mutant: the unigram is counted only when the window holds a token.
TokenStepSkipsLonely(t, s, k, w) ==
    [u |-> IF Window(s, k, w) = <<>> THEN t.u ELSE Increment(t.u, s[k + 1]),
     c |-> CountWindow(t.c, s[k + 1], Window(s, k, w))]

\* The body of "for (i, target_token) in enumerate(sentence)" at position k.
TokenStep(t, s, k, w) ==
    [u |-> Increment(t.u, s[k + 1]),
     c |-> CountWindow(t.c, s[k + 1], Window(s, k, w))]

\* The loop over the positions k, k + 1, ... of one sentence.
RECURSIVE SentenceFrom(_, _, _, _)
SentenceFrom(t, s, k, w) ==
    IF k >= Len(s) THEN t ELSE SentenceFrom(TokenStep(t, s, k, w), s, k + 1, w)

\* The counting pass of main over the given lines, from the two empty Counters.
RECURSIVE CountLines(_, _, _)
CountLines(t, lines, w) ==
    IF lines = <<>> THEN t
    ELSE CountLines(SentenceFrom(t, Split(RStrip(Head(lines))), 0, w), Tail(lines), w)

Aggregate(lines, w) == CountLines([u |-> <<>>, c |-> <<>>], lines, w)

\* The items of a dict whose value is n, in the dict's order.
RECURSIVE ItemsWithValue(_, _)
ItemsWithValue(d, n) ==
    IF d = <<>> THEN <<>>
    ELSE (IF d[1][2] = n THEN <<d[1]>> ELSE <<>>) \o ItemsWithValue(Tail(d), n)

RECURSIVE MaxValue(_)
MaxValue(d) == IF d = <<>> THEN 0 ELSE Max(d[1][2], MaxValue(Tail(d)))

\* Counter.most_common(): sorted(items, key=value, reverse=True), which is stable;
\* the counts of a Counter that is only incremented are positive.
RECURSIVE MostCommonFrom(_, _)
MostCommonFrom(d, n) ==
    IF n < 0 THEN <<>> ELSE ItemsWithValue(d, n) \o MostCommonFrom(d, n - 1)

\* Mutant: most_common(1)
MostCommonTopOnly(d) == IF d = <<>> THEN <<>> ELSE <<MostCommonFrom(d, MaxValue(d))[1]>>

MostCommon(d) == MostCommonFrom(d, MaxValue(d))

\* print(f"{token}\t{freq}", file=sink) for every item of most_common()
UnigramLines(d) ==
    LET items == MostCommon(d)
    IN  [k \in 1..Len(items) |->
            items[k][1] \o <<TAB>> \o FormatInt(items[k][2]) \o <<NL>>]

\* Mutant: the two tokens are separated by a tab.
CooccurLinesTabbed(d) ==
    [k \in 1..Len(d) |->
        d[k][1][1] \o <<TAB>> \o d[k][1][2] \o <<TAB>> \o FormatInt(d[k][2]) \o <<NL>>]

\* print(f"{target_token} {context_token}\t{freq}", file=sink) for every item
CooccurLines(d) ==
    [k \in 1..Len(d) |->
        d[k][1][1] \o <<SP>> \o d[k][1][2] \o <<TAB>> \o FormatInt(d[k][2]) \o <<NL>>]

NoCalc == [built |-> FALSE, unigram |-> <<>>, cooccur |-> <<>>, unigram_n |-> 0, cooccur_n |-> 0]
NoQuery == [w1 |-> <<>>, w2 |-> <<>>, pmi |-> [kind |-> "none", n |-> 0, d |-> 0],
            ppmi |-> [kind |-> "none", n |-> 0, d |-> 0]]

\* cooccurrence.py starts: args.ws is an int (the default is one; the parser
\* declares no type), the source is any corpus, both Counters are empty.
Init ==
    /\ pc = "aggregate"
    /\ ws \in 1..MaxWs
    /\ corpus \in Corpora
    /\ linenum = 0
    /\ sentence = <<>>
    /\ i = 0
    /\ window = <<>>
    /\ unigram_freqs = <<>>
    /\ cooccur_freqs = <<>>
    /\ unigram_file = <<>>
    /\ cooccur_file = <<>>
    /\ row = 0
    /\ unigram = <<>>
    /\ cooccur = <<>>
    /\ calc = NoCalc
    /\ query = NoQuery

ppmiVars == <<row, unigram, cooccur, calc, query>>

\* for (linenum, line) in enumerate(source, 1): sentence = line.rstrip().split()
ReadLine ==
    /\ pc = "aggregate"
    /\ i = Len(sentence)
    /\ linenum < Len(corpus)
    /\ linenum' = linenum + 1
    /\ sentence' = Split(RStrip(corpus[linenum + 1]))
    /\ i' = 0
    /\ UNCHANGED <<pc, ws, corpus, window, unigram_freqs, cooccur_freqs>>
    /\ UNCHANGED fileVars
    /\ UNCHANGED ppmiVars

\* One iteration of "for (i, target_token) in enumerate(sentence)".
CountToken ==
    /\ pc = "aggregate"
    /\ i < Len(sentence)
    /\ LET t == TokenStep([u |-> unigram_freqs, c |-> cooccur_freqs], sentence, i, ws)
       IN  /\ unigram_freqs' = t.u
           /\ cooccur_freqs' = t.c
    /\ window' = Window(sentence, i, ws)
    /\ i' = i + 1
    /\ UNCHANGED <<pc, ws, corpus, linenum, sentence>>
    /\ UNCHANGED fileVars
    /\ UNCHANGED ppmiVars

\* The source is exhausted: the unigram table is written.
WriteUnigrams ==
    /\ pc = "aggregate"
    /\ i = Len(sentence)
    /\ linenum = Len(corpus)
    /\ unigram_file' = UnigramLines(unigram_freqs)
    /\ pc' = "write_cooccur"
    /\ UNCHANGED aggVars
    /\ UNCHANGED cooccur_file
    /\ UNCHANGED ppmiVars

WriteCooccur ==
    /\ pc = "write_cooccur"
    /\ cooccur_file' = CooccurLines(cooccur_freqs)
    /\ pc' = "written"
    /\ UNCHANGED aggVars
    /\ UNCHANGED unigram_file
    /\ UNCHANGED ppmiVars

----------------------------------------------------------------------------
(* ppmi.py *)

\* (w1, w2) if w1 < w2 else (w2, w1)
_make_key(w1, w2) == IF StrLess(w1, w2) THEN <<w1, w2>> ELSE <<w2, w1>>

\* ppmi.py is started on the two files cooccurrence.py wrote.
StartPpmi ==
    /\ pc = "written"
    /\ pc' = "read_unigram"
    /\ row' = 0
    /\ UNCHANGED <<unigram, cooccur, calc, query>>
    /\ UNCHANGED aggVars
    /\ UNCHANGED fileVars

\* One iteration of _read_unigram's "for line in source".  A row that does not
\* unpack into two fields, or whose count int() rejects, raises ValueError.
ReadUnigramRow ==
    /\ pc = "read_unigram"
    /\ row < Len(unigram_file)
    /\ LET fields == SplitOnce(RStrip(unigram_file[row + 1]), TAB)
       IN  IF Len(fields) = 2 /\ ParseInt(fields[2]).ok
           THEN /\ unigram' = Put(unigram, fields[1], ParseInt(fields[2]).val)
                /\ row' = row + 1
                /\ pc' = pc
           ELSE /\ pc' = "raised"
                /\ UNCHANGED <<unigram, row>>
    /\ UNCHANGED <<cooccur, calc, query>>
    /\ UNCHANGED aggVars
    /\ UNCHANGED fileVars

\* _read_unigram returns its table; _read_cooccur opens its file.
ReturnUnigram ==
    /\ pc = "read_unigram"
    /\ row = Len(unigram_file)
    /\ pc' = "read_cooccur"
    /\ row' = 0
    /\ UNCHANGED <<unigram, cooccur, calc, query>>
    /\ UNCHANGED aggVars
    /\ UNCHANGED fileVars

\* One iteration of _read_cooccur's "for line in source".
ReadCooccurRow ==
    /\ pc = "read_cooccur"
    /\ row < Len(cooccur_file)
    /\ LET fields == SplitOnce(RStrip(cooccur_file[row + 1]), TAB)
           pair == SplitOnce(fields[1], SP)
       IN  IF Len(fields) = 2 /\ Len(pair) = 2 /\ ParseInt(fields[2]).ok
           THEN /\ cooccur' = Put(cooccur, _make_key(pair[1], pair[2]), ParseInt(fields[2]).val)
                /\ row' = row + 1
                /\ pc' = pc
           ELSE /\ pc' = "raised"
                /\ UNCHANGED <<cooccur, row>>
    /\ UNCHANGED <<unigram, calc, query>>
    /\ UNCHANGED aggVars
    /\ UNCHANGED fileVars

ReturnCooccur ==
    /\ pc = "read_cooccur"
    /\ row = Len(cooccur_file)
    /\ pc' = "construct"
    /\ UNCHANGED <<row, unigram, cooccur, calc, query>>
    /\ UNCHANGED aggVars
    /\ UNCHANGED fileVars

\* PMICalculator.__init__
PMICalculator(u, c) ==
    [built |-> TRUE, unigram |-> u, cooccur |-> c,
     unigram_n |-> SumValues(u), cooccur_n |-> SumValues(c)]

Construct ==
    /\ pc = "construct"
    /\ calc' = PMICalculator(unigram, cooccur)
    /\ pc' = "ready"
    /\ UNCHANGED <<row, unigram, cooccur, query>>
    /\ UNCHANGED aggVars
    /\ UNCHANGED fileVars

\* Outcomes of the float computations: the quotient n / d, the logarithm
\* log2(n / d), negative infinity, 0.0, or the exception raised.
Outcome(kind, n, d) == [kind |-> kind, n |-> n, d |-> d]
IsError(r) == r.kind \in {"ZeroDivisionError", "ValueError"}

\* x / y on ints: ZeroDivisionError when y is 0.
TrueDiv(x, y) ==
    IF y = 0 THEN Outcome("ZeroDivisionError", x, y) ELSE Outcome("quotient", x, y)

\* self.unigram.get(w, 0) / self.unigram_n
_unigram_p(self, w) == TrueDiv(Get(self.unigram, w, 0), self.unigram_n)

\* self.cooccur.get(_make_key(w1, w2), 0) / self.cooccur_n
_cooccur_p(self, w1, w2) == TrueDiv(Get(self.cooccur, _make_key(w1, w2), 0), self.cooccur_n)

\* math.log2(numerator / denominator), the denominator being p1 * p2:
\* float division by 0.0 raises ZeroDivisionError, log2 of a value <= 0 ValueError.
Log2Ratio(numerator, p1, p2) ==
    LET n == numerator.n * p1.d * p2.d
        d == numerator.d * p1.n * p2.n
    IN  IF p1.n * p2.n = 0 THEN Outcome("ZeroDivisionError", n, d)
        ELSE IF n * d <= 0 THEN Outcome("ValueError", n, d)
        ELSE Outcome("log2", IF d < 0 THEN 0 - n ELSE n, IF d < 0 THEN 0 - d ELSE d)

\* PMICalculator.pmi
pmi(self, w1, w2) ==
    LET numerator == _cooccur_p(self, w1, w2)
    IN  IF IsError(numerator) THEN numerator
        ELSE IF numerator.n = 0 THEN Outcome("-inf", 0, 0)
        ELSE IF IsError(_unigram_p(self, w1)) THEN _unigram_p(self, w1)
        ELSE Log2Ratio(numerator, _unigram_p(self, w1), _unigram_p(self, w2))

\* PMICalculator.ppmi: max(self.pmi(w1, w2), 0.0)
ppmi(self, w1, w2) ==
    LET p == pmi(self, w1, w2)
    IN  IF IsError(p) THEN p
        ELSE IF p.kind = "log2" /\ p.n > p.d THEN p
        ELSE IF p.kind = "log2" /\ p.n = p.d THEN p
        ELSE Outcome("0.0", 0, 0)

\* A call of calc.ppmi(w1, w2), which calls calc.pmi(w1, w2).
CallPpmi(w1, w2) ==
    /\ pc = "ready"
    /\ query' = [w1 |-> w1, w2 |-> w2, pmi |-> pmi(calc, w1, w2), ppmi |-> ppmi(calc, w1, w2)]
    /\ pc' = IF IsError(pmi(calc, w1, w2)) THEN "raised" ELSE "ready"
    /\ UNCHANGED <<row, unigram, cooccur, calc>>
    /\ UNCHANGED aggVars
    /\ UNCHANGED fileVars

Next ==
    \/ ReadLine
    \/ CountToken
    \/ WriteUnigrams
    \/ WriteCooccur
    \/ StartPpmi
    \/ ReadUnigramRow
    \/ ReturnUnigram
    \/ ReadCooccurRow
    \/ ReturnCooccur
    \/ Construct
    \/ \E w1 \in QueryTokens, w2 \in QueryTokens : CallPpmi(w1, w2)

Spec == Init /\ [][Next]_vars

----------------------------------------------------------------------------
(* ppmi.py run on table files of any content *)

\* The count fields of the checked rows: "0", "1", "-1", "1b".
CountFields == {<<48>>, <<49>>, <<45, 49>>, <<49, 98>>}

\* Rows "token<TAB>count" and rows without a tab.
UnigramRows ==
    {w \o <<TAB>> \o c \o <<NL>> : w \in Vocab, c \in CountFields}
        \cup {w \o <<NL>> : w \in Vocab}

\* The pair fields of the checked rows: "ab b", "b ab", "b b", "bb".
PairFields == {<<97, 98, 32, 98>>, <<98, 32, 97, 98>>, <<98, 32, 98>>, <<98, 98>>}

CooccurRows ==
    {p \o <<TAB>> \o c \o <<NL>> : p \in PairFields, c \in CountFields}
        \cup {p \o <<NL>> : p \in PairFields}

InitLoad ==
    /\ pc = "read_unigram"
    /\ ws = 1
    /\ corpus = <<>>
    /\ linenum = 0
    /\ sentence = <<>>
    /\ i = 0
    /\ window = <<>>
    /\ unigram_freqs = <<>>
    /\ cooccur_freqs = <<>>
    /\ unigram_file \in SeqsUpTo(UnigramRows, MaxRows)
    /\ cooccur_file \in SeqsUpTo(CooccurRows, MaxRows)
    /\ row = 0
    /\ unigram = <<>>
    /\ cooccur = <<>>
    /\ calc = NoCalc
    /\ query = NoQuery

NextLoad ==
    \/ ReadUnigramRow
    \/ ReturnUnigram
    \/ ReadCooccurRow
    \/ ReturnCooccur
    \/ Construct
    \/ \E w1 \in QueryTokens, w2 \in QueryTokens : CallPpmi(w1, w2)

SpecLoad == InitLoad /\ [][NextLoad]_vars

----------------------------------------------------------------------------
(* Properties *)

\* s <= t on str.
StrLessEq(s, t) == ~StrLess(t, s)

\* The tokenized sentences of the corpus, line by line.
SentenceOfLine(k) == Split(RStrip(corpus[k]))

\* The counting pass is over.
Aggregated == pc # "aggregate"

\* Both tables are loaded from the files the counting pass wrote.
Loaded == pc = "construct" \/ calc.built

RECURSIVE SumOver(_, _)
SumOver(f, S) ==
    IF S = {} THEN 0 ELSE LET x == CHOOSE y \in S : TRUE IN f[x] + SumOver(f, S \ {x})

\* Unordered position pairs {p, q} of sentence s, p # q, |p - q| <= r, whose
\* tokens are a and b.
PairEvents(s, a, b, r) ==
    Cardinality({pq \in (1..Len(s)) \X (1..Len(s)) :
        /\ pq[1] < pq[2]
        /\ pq[2] - pq[1] <= r
        /\ \/ s[pq[1]] = a /\ s[pq[2]] = b
           \/ s[pq[1]] = b /\ s[pq[2]] = a})

CorpusPairEvents(a, b) ==
    SumOver([k \in 1..Len(corpus) |-> PairEvents(SentenceOfLine(k), a, b, ws)],
            1..Len(corpus))

\* C1: after the aggregation pass the count under each canonical key (a, b),
\* a <= b, is the number of unordered position pairs within radius ws of one
\* sentence whose tokens are a and b: every such event is counted exactly once.
C1_EachPairEventCountedOnce ==
    Aggregated =>
        \A a \in Vocab, b \in Vocab :
            StrLessEq(a, b) => Get(cooccur_freqs, <<a, b>>, 0) = CorpusPairEvents(a, b)

\* The tokens at the positions j # k of s with |k - j| <= r (k 0-based), in order.
RadiusWindow(s, k, r) == Slice(s, Max(k - r, 0), k) \o Slice(s, k + 1, k + r + 1)

\* C2: the window built for position i holds exactly the tokens at the positions
\* j # i of the same sentence with |i - j| <= ws, up to ws before and ws after.
C2_WindowIsRadiusNeighbourhood ==
    i > 0 => window = RadiusWindow(sentence, i - 1, ws)

\* The strings over "a", "b" of length at most 2.
KeyTokens == SeqsUpTo({97, 98}, 2)

\* C3: every key of the co-occurrence Counter and of the loaded co-occurrence
\* table is canonical (first <= second), the table never holds a pair in both
\* orders; in the loader _make_key is symmetric and ordered on any two strings,
\* (w, w) for equal tokens.
C3_KeysCanonical ==
    /\ \A key \in Keys(cooccur_freqs) :
          /\ StrLessEq(key[1], key[2])
          /\ key[1] # key[2] => <<key[2], key[1]>> \notin Keys(cooccur_freqs)
    /\ \A key \in Keys(cooccur) :
          /\ StrLessEq(key[1], key[2])
          /\ key[1] # key[2] => <<key[2], key[1]>> \notin Keys(cooccur)
    /\ pc = "read_cooccur" =>
          \A w1 \in KeyTokens, w2 \in KeyTokens :
              /\ _make_key(w1, w2) = _make_key(w2, w1)
              /\ StrLessEq(_make_key(w1, w2)[1], _make_key(w1, w2)[2])
              /\ {_make_key(w1, w2)[1], _make_key(w1, w2)[2]} = {w1, w2}
              /\ w1 = w2 => _make_key(w1, w2) = <<w1, w1>>

\* The loader met a pair whose tokens differ, and the Counter holds two keys.
C3_Witness ==
    /\ pc = "ready"
    /\ Len(cooccur_freqs) >= 2
    /\ \E key \in Keys(cooccur) : key[1] # key[2]

\* Number of positions holding token w among the first n positions of s.
Occurrences(s, w, n) == Cardinality({p \in 1..n : s[p] = w})

\* Number of positions holding w in the lines before line k.
OccurrencesBefore(w, k) ==
    SumOver([l \in 1..(k - 1) |-> Occurrences(SentenceOfLine(l), w, Len(SentenceOfLine(l)))],
            1..(k - 1))

\* C4: the unigram count of each token is the number of positions processed so
\* far that hold it, whatever the window held; after the pass unigram_n is the
\* number of token positions of the corpus.
C4_UnigramCountsPositions ==
    /\ \A w \in Vocab :
          Get(unigram_freqs, w, 0) = OccurrencesBefore(w, linenum) + Occurrences(sentence, w, i)
    /\ Keys(unigram_freqs) \subseteq Vocab
    /\ calc.built =>
          calc.unigram_n =
              SumOver([l \in 1..Len(corpus) |-> Len(SentenceOfLine(l))], 1..Len(corpus))

\* Two token positions were counted although no co-occurrence was.
C4_Witness ==
    /\ pc = "ready"
    /\ calc.unigram_n = 2
    /\ calc.cooccur_n = 0

\* C5: for all tokens in either order pmi returns exactly negative infinity iff
\* the count under make_key(w1, w2) is zero or absent; a query for an unseen
\* token or pair raises nothing and yields -inf and PPMI 0.
C5_PmiNegInfIffUnseen ==
    query.pmi.kind # "none" =>
        /\ ~IsError(query.pmi)
        /\ ~IsError(query.ppmi)
        /\ query.pmi.kind = "-inf" <=>
              Get(calc.cooccur, _make_key(query.w1, query.w2), 0) = 0
        /\ query.pmi.kind = "-inf" => query.ppmi.kind = "0.0"

\* C6: no calculator with unigram_n = 0 or cooccur_n = 0 ever exists; the
\* construction fails instead.
C6_NoCalculatorWithZeroTotal ==
    calc.built => calc.unigram_n # 0 /\ calc.cooccur_n # 0

\* A count field that is a non-negative base-10 integer: digits only.
IsPlainDecimal(s) == s # <<>> /\ \A k \in 1..Len(s) : IsDigit(s[k])

WellFormedUnigramRow(line) ==
    LET fields == SplitOnce(RStrip(line), TAB)
    IN  Len(fields) = 2 /\ IsPlainDecimal(fields[2])

WellFormedCooccurRow(line) ==
    LET fields == SplitOnce(RStrip(line), TAB)
    IN  /\ Len(fields) = 2
        /\ Len(SplitOnce(fields[1], SP)) = 2
        /\ IsPlainDecimal(fields[2])

\* C7: a loader returns a table only when every row of its file splits into the
\* expected fields with a non-negative base-10 count; every stored count is >= 0.
C7_MalformedRowAborts ==
    /\ pc \in {"read_cooccur", "construct", "ready"} =>
          \A k \in 1..Len(unigram_file) : WellFormedUnigramRow(unigram_file[k])
    /\ pc \in {"construct", "ready"} =>
          \A k \in 1..Len(cooccur_file) : WellFormedCooccurRow(cooccur_file[k])
    /\ \A k \in 1..Len(unigram) : unigram[k][2] >= 0
    /\ \A k \in 1..Len(cooccur) : cooccur[k][2] >= 0

\* The lines of the corpus picked by a mask, in their order.
RECURSIVE SelectLines(_, _, _)
SelectLines(lines, mask, keep) ==
    IF lines = <<>> THEN <<>>
    ELSE (IF mask[1] = keep THEN <<Head(lines)>> ELSE <<>>)
            \o SelectLines(Tail(lines), Tail(mask), keep)

\* The key-by-key sum of two tables.
RECURSIVE Merge(_, _)
Merge(d1, d2) ==
    IF d2 = <<>> THEN d1
    ELSE Merge(Put(d1, d2[1][1], Get(d1, d2[1][1], 0) + d2[1][2]), Tail(d2))

Masks == [1..Len(corpus) -> BOOLEAN]

\* C8: for every split of the corpus into two sub-sequences of lines, the
\* key-by-key sum of the two parts' tables is the whole corpus' tables, in
\* either order of the parts.
C8_MergeOfPartsIsWhole ==
    pc = "write_cooccur" =>
        \A mask \in Masks :
            LET A == Aggregate(SelectLines(corpus, mask, TRUE), ws)
                B == Aggregate(SelectLines(corpus, mask, FALSE), ws)
            IN  /\ DictEq(Merge(A.u, B.u), unigram_freqs)
                /\ DictEq(Merge(A.c, B.c), cooccur_freqs)
                /\ DictEq(Merge(B.u, A.u), unigram_freqs)
                /\ DictEq(Merge(B.c, A.c), cooccur_freqs)

\* Two lines that both hold a counted pair, so that both parts of the split
\* one line / other line contribute to the same key.
C8_Witness ==
    /\ pc = "write_cooccur"
    /\ Len(corpus) = 2
    /\ \E key \in Keys(cooccur_freqs) :
          /\ Get(Aggregate(<<corpus[1]>>, ws).c, key, 0) > 0
          /\ Get(Aggregate(<<corpus[2]>>, ws).c, key, 0) > 0

\* C9: loading the written files gives the tables the pass produced: the same
\* keys with the same counts, hence the same totals; no row of them is refused.
C9_RoundTrip ==
    /\ pc = "raised" => calc.built
    /\ Loaded => DictEq(unigram, unigram_freqs) /\ DictEq(cooccur, cooccur_freqs)
    /\ calc.built =>
          /\ calc.unigram_n = SumValues(unigram_freqs)
          /\ calc.cooccur_n = SumValues(cooccur_freqs)

\* Both tables hold several rows and came back.
C9_Witness ==
    /\ pc = "ready"
    /\ Len(unigram_freqs) = 2
    /\ Len(cooccur_freqs) >= 2
    /\ \E k \in 1..Len(cooccur_freqs) : cooccur_freqs[k][2] >= 2

\* C10: at every sentence boundary each key with a positive co-occurrence count
\* has positive unigram counts for both tokens; in a pmi call on a calculator
\* built from the tables of the pass a non-zero co-occurrence probability meets
\* non-zero unigram probabilities, so the denominator is never zero.
C10_SeenPairsHaveSeenTokens ==
    /\ i = Len(sentence) =>
          \A key \in Keys(cooccur_freqs) :
              Get(cooccur_freqs, key, 0) > 0 =>
                  Get(unigram_freqs, key[1], 0) > 0 /\ Get(unigram_freqs, key[2], 0) > 0
    /\ query.pmi.kind # "none" =>
          LET numerator == _cooccur_p(calc, query.w1, query.w2)
          IN  (~IsError(numerator) /\ numerator.n # 0) =>
                  /\ ~IsError(_unigram_p(calc, query.w1))
                  /\ ~IsError(_unigram_p(calc, query.w2))
                  /\ _unigram_p(calc, query.w1).n * _unigram_p(calc, query.w2).n # 0
                  /\ query.pmi.kind = "log2"
    /\ IsError(query.pmi) => calc.cooccur_n = 0

\* A finite pmi was computed for a seen pair.
C10_Witness ==
    /\ pc = "ready"
    /\ query.pmi.kind = "log2"
    /\ query.w1 # query.w2

====
